---- MODULE Spec2Model ----
(***************************************************************************)
(* Model of the authentication subsystem of farmdb                         *)
(* (src/src/core/auth/service.py, src/src/core/auth/router.py and the      *)
(* tables of src/src/migrations/0003_create_users_table.py).               *)
(*                                                                         *)
(* Every request is run by a worker of Procs.  A request advances one      *)
(* store statement (one conn.execute, or one access to the _challenges     *)
(* dict) at a time, so that the statements of concurrent requests          *)
(* interleave.                                                             *)
(***************************************************************************)
EXTENDS Integers, FiniteSets, Sequences, TLC

\* ------------------------------------------------------------- bounds
MaxUsers == 2
MaxTokens == 3
MaxExpired == 1
MaxChallenges == 3

Procs == {"w1", "w2"}
Before(q, p) == q = "w1" /\ p = "w2"

\* request inputs
Emails == {"a@x", "A@x", "b@x"}
RegisterPasswords == {"", "pw"}
LoginPasswords == {"", "pw"}
SetPasswords == {"pw", "new"}
OptionEmails == {"", "a@x", "c@x"}
LoginEmails == {"a@x", "c@x"}
CredIds == {"k1", "k2"}
SignCounts == 0..2

\* ------------------------------------------------------------- state
VARIABLES
    users,                  \* v1.users rows
    password_credentials,   \* v1.password_credentials rows
    refresh_tokens,         \* v1.refresh_tokens rows
    issued,                 \* token pairs handed out in a TokenResponse
    expired,                \* how far the wall clock has moved past the exp claims
    revokedBy,              \* history: which operation revoked each revoked row
    registered,             \* history: what each user was registered with, and the
                            \*   password that a caller of set_password set last
    passkey_credentials,    \* v1.passkey_credentials rows
    challenges,             \* AuthService._challenges: challenge key -> challenge
    minted,                 \* how many challenges, challenge keys and row ids were generated
    consumed,               \* history: how often each challenge was obtained by a verify
    req,                    \* per worker: the request being served and its locals
    resp                    \* the response sent last, until the next request arrives

vars == <<users, password_credentials, refresh_tokens, issued, expired, revokedBy,
          registered, passkey_credentials, challenges, minted, consumed, req, resp>>

\* the state of the passkey ceremonies
ceremony == <<passkey_credentials, challenges, minted, consumed>>

\* the history variables
hist == <<revokedBy, registered>>

store == <<users, password_credentials, refresh_tokens>>

\* ------------------------------------------------------------- pure helpers

\* str.lower() on the e-mail addresses of the model
Lower(e) == IF e = "A@x" THEN "a@x" ELSE e

\* PasswordHasher.hash: a salted hash, injective in the password, that encodes the cost
\* parameters of the hasher
Argon2Hash(pw) == [alg |-> "argon2id", pw |-> pw, cost |-> "current"]

\* a hash made before the cost parameters of PasswordHasher() were raised
OutdatedHash(pw) == [alg |-> "argon2id", pw |-> pw, cost |-> "outdated"]

\* PasswordHasher.check_needs_rehash
CheckNeedsRehash(h) == h.cost /= "current"

\* PasswordHasher.verify: TRUE iff the hash was made from pw
Argon2Verify(h, pw) == h.pw = pw

\* Python truthiness of the password argument of create_user
Truthy(s) == s /= ""

\* hashlib.sha256(token.encode()).hexdigest(): injective on the encoded token
Sha256(tok) == [sha256 |-> tok]

NoToken == [typ |-> "none", sub |-> 0, jti |-> 0, sig |-> FALSE]

\* the refresh token of pair n of user uid, as jwt.encode signs it
RefreshToken(uid, n) == [typ |-> "refresh", sub |-> uid, jti |-> n, sig |-> TRUE]

\* the access token of pair n of user uid (jti stands for its iat instant)
AccessToken(uid, n) == [typ |-> "access", sub |-> uid, jti |-> n, sig |-> TRUE]

\* a token signed with another key, and a well-signed refresh token no row knows
ForgedToken == [typ |-> "refresh", sub |-> 1, jti |-> 1, sig |-> FALSE]
OrphanToken == [typ |-> "refresh", sub |-> 1, jti |-> 0, sig |-> TRUE]

\* exp claim in the past: pairs are issued in order and share one TTL per type,
\* so the expired tokens of a type are the oldest ones
Expired(tok) ==
    IF tok.typ = "access" THEN tok.jti <= expired.access
    ELSE tok.jti <= expired.refresh

\* mutant: jwt.decode with verify_exp switched off
JwtDecodes_NoExpiry(tok) == tok.sig

\* jwt.decode(token, secret, algorithms): the payload, or PyJWTError
JwtDecodes(tok) == tok.sig /\ ~Expired(tok)

\* ------------------------------------------------------------- requests

\* a worker that serves no request and has answered none
Blank ==
    [op |-> "none", pc |-> "done", email |-> "", password |-> "", token |-> NoToken,
     uid |-> 0, row |-> 0, found |-> FALSE, standing |-> "",
     cred |-> "", count |-> 0, bound |-> FALSE, list |-> {}, disabled |-> FALSE]

NoResponse ==
    [op |-> "none", status |-> 0, detail |-> "", ret |-> 0, standing |-> "", list |-> {},
     disabled |-> FALSE]

\* a request is handed to the first worker that is free
Idle(p) == req[p].pc = "done" /\ \A q \in Procs : req[q].pc = "done" => ~Before(q, p)

\* the answer to request r: an HTTP status and detail (ret: what the service call
\* behind it returned, where the claims need it)
Answer(r, status, detail, ret) ==
    [op |-> r.op, status |-> status, detail |-> detail, ret |-> ret, standing |-> r.standing,
     list |-> r.list, disabled |-> r.disabled]

\* worker p goes on with its request as r: nothing is answered in this step. When the
\* request has just arrived (p was free), the last response is history.
Continue(p, r) ==
    /\ req' = [req EXCEPT ![p] = r]
    /\ resp' = IF req[p].pc = "done" THEN NoResponse ELSE resp

\* worker p answers its request r and is free again
Finish(p, r, status, detail, ret) ==
    /\ req' = [req EXCEPT ![p] = Blank]
    /\ resp' = Answer(r, status, detail, ret)

InFlight(ops) == {q \in Procs : req[q].pc /= "done" /\ req[q].op \in ops}

\* room for one more refresh-token row, counting the requests that may still insert one
TokenBudget == Cardinality(issued) + Cardinality(InFlight({"register", "login", "refresh"})) < MaxTokens

\* room for one more user row
UserBudget == Cardinality(users) + Cardinality(InFlight({"register"})) < MaxUsers

\* the tokens a client can present: those it was given, and two it made up
Presentable ==
    {RefreshToken(i.sub, i.jti) : i \in issued}
        \cup {AccessToken(i.sub, i.jti) : i \in {j \in issued : j.jti = 1}}
        \cup {ForgedToken, OrphanToken}

\* ------------------------------------------------------------- store statements

\* mutant: the lookup without email.lower()
GetUserByEmail_NoLower(email) == {u \in users : u.email = email}

\* SELECT ... FROM v1.users WHERE email = ?  with email.lower()
GetUserByEmail(email) == {u \in users : u.email = Lower(email)}

\* SELECT ... FROM v1.users WHERE id = ?
GetUserById(uid) == {u \in users : u.id = uid}

\* mutant: the INSERT without email.lower()
NewUserRow_NoLower(uid, email) == [id |-> uid, email |-> email, is_active |-> TRUE]

\* the row create_user inserts
NewUserRow(uid, email) == [id |-> uid, email |-> Lower(email), is_active |-> TRUE]

\* id TEXT PRIMARY KEY, email TEXT UNIQUE
UsersConstraintOk(row) == \A u \in users : u.id /= row.id /\ u.email /= row.email

\* SELECT ... FROM v1.password_credentials WHERE user_id = ?
GetPasswordCredential(uid) == {c \in password_credentials : c.user_id = uid}

\* UNIQUE(user_id) of v1.password_credentials
PasswordConstraintOk(row) == \A c \in password_credentials : c.user_id /= row.user_id

\* SELECT id, revoked FROM v1.refresh_tokens WHERE token_hash = ?
GetRefreshRow(tok) == {r \in refresh_tokens : r.token_hash = Sha256(tok)}

\* mutant: "if not result: return None"
RefreshRowRejected_NoRevokedCheck(result) == result = {}

\* refresh_tokens: "if not result or result[1]: return None"
RefreshRowRejected(result) == result = {} \/ \E r \in result : r.revoked

\* refresh_tokens: payload.get("type") != "refresh"
WrongTypeForRefresh(tok) == tok.typ /= "refresh"

\* mutant: refresh_tokens without its UPDATE, the old row left as it is
RevokeById_NoUpdate(id) == refresh_tokens

\* UPDATE v1.refresh_tokens SET revoked = TRUE WHERE id = ?
RevokeById(id) ==
    {IF r.id = id THEN [r EXCEPT !.revoked = TRUE] ELSE r : r \in refresh_tokens}

\* mutant: WHERE token_hash = ?  alone
MatchByHash_AnyRow(tok) == {r \in refresh_tokens : r.token_hash = Sha256(tok)}

\* the rows matched by  WHERE token_hash = ? AND revoked = FALSE
MatchByHash(tok) == {r \in refresh_tokens : r.token_hash = Sha256(tok) /\ ~r.revoked}

\* mutant: WHERE revoked = FALSE  alone
MatchByUser_AnyUser(uid) == {r \in refresh_tokens : ~r.revoked}

\* the rows matched by  WHERE user_id = ? AND revoked = FALSE
MatchByUser(uid) == {r \in refresh_tokens : r.user_id = uid /\ ~r.revoked}

\* mutant: DELETE FROM v1.refresh_tokens on the matched rows
RevokeRows_Delete(matched) == {r \in refresh_tokens : r \notin matched}

\* UPDATE v1.refresh_tokens SET revoked = TRUE on the matched rows
RevokeRows(matched) ==
    {IF r \in matched THEN [r EXCEPT !.revoked = TRUE] ELSE r : r \in refresh_tokens}

\* INSERT INTO v1.refresh_tokens of create_tokens, for pair n of user uid
InsertRefreshToken(uid, n) ==
    refresh_tokens \cup
        {[id |-> n, user_id |-> uid, token_hash |-> Sha256(RefreshToken(uid, n)), revoked |-> FALSE]}

\* history: the rows that turn revoked in this step are charged to `cause`
Charge(newRows, cause) ==
    [n \in {r.id : r \in newRows} |->
        IF \E r \in newRows : r.id = n /\ r.revoked
        THEN (IF n \in DOMAIN revokedBy /\ revokedBy[n] /= "" THEN revokedBy[n] ELSE cause)
        ELSE ""]

\* the keys of the _challenges dict: user.id, or secrets.token_urlsafe(16)
NoKey == [kind |-> "none", n |-> 0]
UserKey(uid) == [kind |-> "uid", n |-> uid]
TokenKey(n) == [kind |-> "tok", n |-> n]

\* options.challenge: fresh random bytes, named by the key they are stored under and by
\* how many challenges that key has had
Challenge(key, g) == [key |-> key, gen |-> g]
NoChallenge == [key |-> NoKey, gen |-> 0]

\* nothing generated yet
NoneMinted == [challenge |-> 0, auth |-> 0, reg |-> [u \in 1..MaxUsers |-> 0], passkey |-> 0]

\* ------------------------------------------------------------- Init

Init ==
    /\ users = {}
    /\ password_credentials = {}
    /\ refresh_tokens = {}
    /\ issued = {}
    /\ expired = [access |-> 0, refresh |-> 0]
    /\ revokedBy = <<>>
    /\ registered = <<>>
    /\ passkey_credentials = {}
    /\ challenges = <<>>
    /\ minted = NoneMinted
    /\ consumed = <<>>
    /\ req = [p \in Procs |-> Blank]
    /\ resp = NoResponse

\* ------------------------------------------------------------- tokens

None == [sub |-> 0, type |-> "none"]

\* mutant: verify_access_token without the check of the type claim
VerifyAccessToken_AnyType(tok) ==
    IF JwtDecodes(tok) THEN [sub |-> tok.sub, type |-> tok.typ] ELSE None

\* verify_access_token: the payload when the token decodes and is an access token
VerifyAccessToken(tok) ==
    IF JwtDecodes(tok) /\ tok.typ = "access" THEN [sub |-> tok.sub, type |-> "access"]
    ELSE None

\* create_tokens(user): sign pair n and INSERT its refresh-token row; the handler
\* answers 200 with the pair
CreateTokens(p) ==
    /\ req[p].pc = "create_tokens"
    /\ LET n == Cardinality(issued) + 1 IN
        /\ refresh_tokens' = InsertRefreshToken(req[p].uid, n)
        /\ issued' = issued \cup {[sub |-> req[p].uid, jti |-> n,
                                   from |-> IF req[p].op = "refresh" THEN req[p].token.jti ELSE 0]}
        /\ Finish(p, req[p], 200, "", n)
        /\ revokedBy' = Charge(refresh_tokens', "")
    /\ registered' = IF req[p].op = "register"
                     THEN [registered EXCEPT ![req[p].uid].done = TRUE] ELSE registered
    /\ UNCHANGED <<users, password_credentials, expired, ceremony>>

\* ------------------------------------------------------------- POST /register

\* a request arrives with its first store statement.
\* register: existing = get_user_by_email(request.email); 400 when it exists
Register(p, e, pw) ==
    /\ Idle(p) /\ TokenBudget /\ UserBudget
    /\ LET r == [Blank EXCEPT !.op = "register", !.email = e, !.password = pw] IN
        IF GetUserByEmail(e) /= {}
        THEN Finish(p, r, 400, "Email already registered", 0)
        ELSE Continue(p, [r EXCEPT !.pc = "insert_user"])
    /\ UNCHANGED <<store, issued, expired, hist, ceremony>>

\* create_user: INSERT INTO v1.users; a constraint violation is raised through the
\* handler, which catches nothing (500)
RegisterInsertUser(p) ==
    /\ req[p].op = "register" /\ req[p].pc = "insert_user"
    /\ LET row == NewUserRow(Cardinality(users) + 1, req[p].email) IN
        IF UsersConstraintOk(row)
        THEN /\ users' = users \cup {row}
             /\ registered' = [u \in DOMAIN registered \cup {row.id} |->
                                 IF u = row.id
                                 THEN [password |-> req[p].password, done |-> FALSE, set |-> {}]
                                 ELSE registered[u]]
             /\ Continue(p, [req[p] EXCEPT !.uid = row.id, !.email = "",
                                           !.pc = IF Truthy(req[p].password) THEN "pw_select"
                                                  ELSE "create_tokens"])
        ELSE /\ users' = users
             /\ registered' = registered
             /\ Finish(p, req[p], 500, "ConstraintException", 0)
    /\ UNCHANGED <<password_credentials, refresh_tokens, issued, expired, revokedBy, ceremony>>

\* set_password: SELECT id FROM v1.password_credentials WHERE user_id = ?
SetPasswordSelect(p) ==
    /\ req[p].pc = "pw_select"
    /\ Continue(p, [req[p] EXCEPT !.found = GetPasswordCredential(req[p].uid) /= {},
                                  !.pc = "pw_write"])
    /\ UNCHANGED <<store, issued, expired, hist, ceremony>>

\* where set_password returns to: create_user ends with get_user_by_id(user_id), which
\* reads back the row it inserted (user rows are never deleted, ids never change), and
\* register goes on to create_tokens
AfterSetPassword(r) == [r EXCEPT !.pc = "create_tokens", !.password = "", !.found = FALSE]

\* set_password returns: to register, or to verify_password, which returns True to
\* login_password or to its caller, or to the caller of set_password
ReturnFromSetPassword(p) ==
    IF req[p].op = "set_password" THEN Finish(p, req[p], 0, "", 0)
    ELSE IF req[p].op = "verify_password" THEN Finish(p, req[p], 0, "", 1)
    ELSE Continue(p, AfterSetPassword(req[p]))

\* history: the password that a caller of set_password (create_user, or a direct call)
\* has set; the call that verify_password makes to rehash sets nothing new
PasswordSetBy(r) ==
    IF r.op \in {"register", "set_password"}
    THEN [registered EXCEPT ![r.uid].set = {r.password}]
    ELSE registered

\* mutant: set_password without "if existing", always the INSERT branch, on a table
\* without UNIQUE(user_id)
UpsertPassword_AlwaysInsert(found, row) == password_credentials \cup {row}

\* set_password: UPDATE ... WHERE user_id = ?  when existing, else the INSERT (which
\* UNIQUE(user_id) may refuse: the table is then left as it is)
UpsertPassword(found, row) ==
    IF found
    THEN {IF c.user_id = row.user_id THEN row ELSE c : c \in password_credentials}
    ELSE IF PasswordConstraintOk(row) THEN password_credentials \cup {row}
    ELSE password_credentials

\* set_password: UPDATE the existing credential, or INSERT a new one
SetPasswordWrite(p) ==
    /\ req[p].pc = "pw_write"
    /\ LET row == [user_id |-> req[p].uid, password_hash |-> Argon2Hash(req[p].password)] IN
        /\ password_credentials' = UpsertPassword(req[p].found, row)
        /\ IF req[p].found \/ PasswordConstraintOk(row)
           THEN /\ ReturnFromSetPassword(p)
                /\ registered' = PasswordSetBy(req[p])
           ELSE /\ Finish(p, req[p], 500, "ConstraintException", 0)
                /\ registered' = registered
    /\ UNCHANGED <<users, refresh_tokens, issued, expired, revokedBy, ceremony>>

\* a direct call of set_password(user_id, password) for an existing user, with its SELECT
SetPassword(p, uid, pw) ==
    /\ Idle(p)
    /\ \E u \in users : u.id = uid
    /\ Continue(p, [Blank EXCEPT !.op = "set_password", !.uid = uid, !.password = pw,
                                 !.found = GetPasswordCredential(uid) /= {},
                                 !.pc = "pw_write"])
    /\ UNCHANGED <<store, issued, expired, hist, ceremony>>

\* ------------------------------------------------------------- POST /login/password

\* history: the request is about an account of `found` that is disabled as it arrives
Disabled(found) == \E u \in found : ~u.is_active

\* login_password: user = get_user_by_email(request.email), then the is_active check
LoginPassword(p, e, pw) ==
    /\ Idle(p) /\ TokenBudget
    /\ LET found == GetUserByEmail(e)
           r == [Blank EXCEPT !.op = "login", !.password = pw, !.disabled = Disabled(found)] IN
        IF found = {} THEN Finish(p, r, 401, "Invalid email or password", 0)
        ELSE LET u == CHOOSE u \in found : TRUE IN
             IF ~u.is_active THEN Finish(p, r, 401, "Account is disabled", 0)
             ELSE Continue(p, [r EXCEPT !.uid = u.id, !.pc = "verify"])
    /\ UNCHANGED <<store, issued, expired, hist, ceremony>>

\* verify_password: SELECT password_hash, then PasswordHasher.verify
VerifyPassword(uid, pw) ==
    \E c \in GetPasswordCredential(uid) : Argon2Verify(c.password_hash, pw)

\* verify_password: "if self._ph.check_needs_rehash(result[0])" on the hash just verified
NeedsRehash(uid) == \E c \in GetPasswordCredential(uid) : CheckNeedsRehash(c.password_hash)

\* verify_password of login_password; it calls set_password before it returns True when
\* the stored hash needs a rehash
LoginVerify(p) ==
    /\ req[p].op = "login" /\ req[p].pc = "verify"
    /\ IF ~VerifyPassword(req[p].uid, req[p].password)
       THEN Finish(p, req[p], 401, "Invalid email or password", 0)
       ELSE IF NeedsRehash(req[p].uid)
       THEN Continue(p, [req[p] EXCEPT !.pc = "pw_select"])
       ELSE Continue(p, [req[p] EXCEPT !.pc = "create_tokens", !.password = ""])
    /\ UNCHANGED <<store, issued, expired, hist, ceremony>>

\* a direct call of verify_password(user_id, password): ret 1 for True, 0 for False
VerifyPasswordCall(p, uid, pw) ==
    /\ Idle(p)
    /\ \E u \in users : u.id = uid
    /\ LET r == [Blank EXCEPT !.op = "verify_password", !.uid = uid, !.password = pw] IN
        IF ~VerifyPassword(uid, pw) THEN Finish(p, r, 0, "", 0)
        ELSE IF NeedsRehash(uid) THEN Continue(p, [r EXCEPT !.pc = "pw_select"])
        ELSE Finish(p, r, 0, "", 1)
    /\ UNCHANGED <<store, issued, expired, hist, ceremony>>

\* ------------------------------------------------------------- POST /refresh

\* history: a pair was already issued from this refresh token
Rotated(tok) == \E i \in issued : i.from = tok.jti /\ RefreshToken(i.sub, i.from) = tok

\* history: how the presented token stands when its request arrives
Standing(tok) ==
    IF ~tok.sig THEN "invalid"
    ELSE IF tok.typ /= "refresh" THEN tok.typ
    ELSE IF \A r \in refresh_tokens : r.token_hash /= Sha256(tok) THEN "invalid"
    ELSE IF Rotated(tok) THEN "rotated"
    ELSE IF revokedBy[tok.jti] = "revoke" THEN "revoked"
    ELSE IF revokedBy[tok.jti] = "rotation" THEN "burned"
    ELSE IF Expired(tok) THEN "invalid"
    ELSE "live"

\* refresh_tokens: jwt.decode, the type check, and the SELECT of the row
Refresh(p, tok) ==
    /\ Idle(p) /\ TokenBudget
    /\ LET r == [Blank EXCEPT !.op = "refresh", !.token = tok, !.standing = Standing(tok),
                              !.disabled = Disabled(GetUserById(tok.sub))]
           result == GetRefreshRow(tok) IN
        IF ~JwtDecodes(tok) \/ WrongTypeForRefresh(tok) \/ RefreshRowRejected(result)
        THEN Finish(p, r, 401, "Invalid or expired refresh token", 0)
        ELSE Continue(p, [r EXCEPT !.row = (CHOOSE x \in result : TRUE).id, !.pc = "revoke"])
    /\ UNCHANGED <<store, issued, expired, hist, ceremony>>

\* mutant: the user is read before the UPDATE, and a request for a missing or inactive
\* user is rejected with the row left as it is
RefreshRevoke_UserFirst(p) ==
    /\ req[p].op = "refresh" /\ req[p].pc = "revoke"
    /\ LET found == GetUserById(req[p].token.sub) IN
        IF found = {} \/ \E u \in found : ~u.is_active
        THEN /\ Finish(p, req[p], 401, "Invalid or expired refresh token", 0)
             /\ UNCHANGED <<refresh_tokens, revokedBy>>
        ELSE /\ refresh_tokens' = RevokeById(req[p].row)
             /\ revokedBy' = Charge(refresh_tokens', "rotation")
             /\ Continue(p, [req[p] EXCEPT !.pc = "get_user"])
    /\ UNCHANGED <<users, password_credentials, issued, expired, registered, ceremony>>

\* refresh_tokens: UPDATE v1.refresh_tokens SET revoked = TRUE WHERE id = ?
RefreshRevoke(p) ==
    /\ req[p].op = "refresh" /\ req[p].pc = "revoke"
    /\ refresh_tokens' = RevokeById(req[p].row)
    /\ revokedBy' = Charge(refresh_tokens', "rotation")
    /\ Continue(p, [req[p] EXCEPT !.pc = "get_user"])
    /\ UNCHANGED <<users, password_credentials, issued, expired, registered, ceremony>>

\* mutant: "if not user: return None"
RefreshGetUser_NoActiveCheck(p) ==
    /\ req[p].op = "refresh" /\ req[p].pc = "get_user"
    /\ LET found == GetUserById(req[p].token.sub) IN
        IF found = {}
        THEN Finish(p, req[p], 401, "Invalid or expired refresh token", 0)
        ELSE Continue(p, [req[p] EXCEPT !.uid = req[p].token.sub, !.pc = "create_tokens"])
    /\ UNCHANGED <<store, issued, expired, hist, ceremony>>

\* refresh_tokens: user = get_user_by_id(payload["sub"]); None when missing or inactive
RefreshGetUser(p) ==
    /\ req[p].op = "refresh" /\ req[p].pc = "get_user"
    /\ LET found == GetUserById(req[p].token.sub) IN
        IF found = {} \/ \E u \in found : ~u.is_active
        THEN Finish(p, req[p], 401, "Invalid or expired refresh token", 0)
        ELSE Continue(p, [req[p] EXCEPT !.uid = req[p].token.sub, !.pc = "create_tokens"])
    /\ UNCHANGED <<store, issued, expired, hist, ceremony>>

\* ------------------------------------------------------------- POST /logout

\* logout: revoke_refresh_token(request.refresh_token), answered 204 whatever it returns
Logout(p, tok) ==
    /\ Idle(p)
    /\ LET matched == MatchByHash(tok) IN
        /\ refresh_tokens' = RevokeRows(matched)
        /\ Finish(p, [Blank EXCEPT !.op = "logout", !.standing = Standing(tok)], 204, "",
                  Cardinality(matched))
    /\ revokedBy' = Charge(refresh_tokens', "revoke")
    /\ UNCHANGED <<users, password_credentials, issued, expired, registered, ceremony>>

\* revoke_all_user_tokens(user_id), a service call: returns result.rowcount
RevokeAllUserTokens(p, uid) ==
    /\ Idle(p)
    /\ LET matched == MatchByUser(uid) IN
        /\ refresh_tokens' = RevokeRows(matched)
        /\ Finish(p, [Blank EXCEPT !.op = "revoke_all"], 0, "", Cardinality(matched))
    /\ revokedBy' = Charge(refresh_tokens', "revoke")
    /\ UNCHANGED <<users, password_credentials, issued, expired, registered, ceremony>>

\* ------------------------------------------------------------- passkeys: helpers

\* mutant: get_current_user with "if not user" alone
MissingOrInactive_OnlyMissing(found) == found = {}

\* get_current_user: "if not user or not user.is_active"
MissingOrInactive(found) == found = {} \/ \E u \in found : ~u.is_active

\* mutant: get_current_user also rejects a token whose user has no live refresh-token row
CurrentUser_NeedsLiveSession(tok) ==
    IF tok = NoToken THEN [status |-> 401, detail |-> "Not authenticated", uid |-> 0]
    ELSE LET payload == VerifyAccessToken(tok) IN
        IF payload = None \/ MatchByUser(payload.sub) = {}
        THEN [status |-> 401, detail |-> "Invalid or expired token", uid |-> 0]
        ELSE IF MissingOrInactive(GetUserById(payload.sub))
        THEN [status |-> 401, detail |-> "User not found or inactive", uid |-> 0]
        ELSE [status |-> 200, detail |-> "", uid |-> payload.sub]

\* get_current_user: the bearer dependency of the passkey routes
CurrentUser(tok) ==
    IF tok = NoToken THEN [status |-> 401, detail |-> "Not authenticated", uid |-> 0]
    ELSE LET payload == VerifyAccessToken(tok) IN
        IF payload = None
        THEN [status |-> 401, detail |-> "Invalid or expired token", uid |-> 0]
        ELSE IF MissingOrInactive(GetUserById(payload.sub))
        THEN [status |-> 401, detail |-> "User not found or inactive", uid |-> 0]
        ELSE [status |-> 200, detail |-> "", uid |-> payload.sub]

\* the bearer tokens a client sends: the access tokens it was given, the refresh tokens
\* it was given, none, a wrong one
Bearers ==
    {AccessToken(i.sub, i.jti) : i \in issued}
        \cup {RefreshToken(i.sub, i.jti) : i \in {j \in issued : j.jti = 1}}
        \cup {NoToken, ForgedToken}

\* history: how the bearer token stands when its request arrives
BearerStanding(tok) ==
    IF tok = NoToken THEN "none"
    ELSE IF ~tok.sig THEN "forged"
    ELSE IF tok.typ /= "access" THEN tok.typ
    ELSE IF Expired(tok) THEN "expired"
    ELSE "access"

\* the challenge keys a client can put in "_challenge_key"
ChallengeKeys ==
    {TokenKey(n) : n \in 1..minted.auth} \cup {UserKey(u.id) : u \in users} \cup {NoKey}

\* mutant: self._challenges.setdefault(key, options.challenge)
ChallengesPut_KeepFirst(key, c) ==
    [k \in DOMAIN challenges \cup {key} |-> IF k \in DOMAIN challenges THEN challenges[k] ELSE c]

\* self._challenges[key] = options.challenge
ChallengesPut(key, c) ==
    [k \in DOMAIN challenges \cup {key} |-> IF k = key THEN c ELSE challenges[k]]

\* what self._challenges.pop(key, None) returns
Popped(key) == IF key \in DOMAIN challenges THEN challenges[key] ELSE NoChallenge

\* mutant: self._challenges.get(key) leaves the entry in the dict
ChallengesPop_Get(key) == challenges

\* what self._challenges.pop(key, None) leaves in the dict
ChallengesPop(key) == [k \in DOMAIN challenges \ {key} |-> challenges[k]]

\* history: challenge c was obtained once more
Obtain(c) ==
    [x \in DOMAIN consumed \cup {c} |->
        IF x /= c THEN consumed[x]
        ELSE IF c \in DOMAIN consumed THEN consumed[c] + 1
        ELSE 1]

\* history: how the presented key stands when its request arrives
KeyStanding(key) ==
    IF key = NoKey THEN "missing"
    ELSE IF key \in DOMAIN challenges THEN "pending"
    ELSE IF \E c \in DOMAIN consumed : c.key = key THEN "spent"
    ELSE "absent"

\* room for one more challenge
ChallengeBudget ==
    minted.challenge + Cardinality(InFlight({"reg_options", "auth_options"})) < MaxChallenges

\* mutant: SELECT credential_id FROM v1.passkey_credentials
CredentialIdsOf_AnyUser(uid) == {k.credential_id : k \in passkey_credentials}

\* SELECT credential_id FROM v1.passkey_credentials WHERE user_id = ?
CredentialIdsOf(uid) == {k.credential_id : k \in {x \in passkey_credentials : x.user_id = uid}}

\* mutant: the SELECT without "WHERE pc.credential_id = ?"
GetPasskeyByCredentialId_AnyRow(cid) == passkey_credentials

\* SELECT ... FROM v1.passkey_credentials pc WHERE pc.credential_id = ?
GetPasskeyByCredentialId(cid) == {k \in passkey_credentials : k.credential_id = cid}

\* id TEXT PRIMARY KEY, credential_id BLOB UNIQUE of v1.passkey_credentials
PasskeyConstraintOk(row) ==
    \A k \in passkey_credentials : k.id /= row.id /\ k.credential_id /= row.credential_id

\* the challenges handed out so far
Minted ==
    {Challenge(TokenKey(n), 1) : n \in 1..minted.auth}
        \cup UNION {{Challenge(UserKey(u), g) : g \in 1..minted.reg[u]} : u \in DOMAIN minted.reg}

\* the responses an authenticator (or an attacker) can send: signed = NoChallenge stands
\* for a response that is bound to no challenge of the server (bad signature or origin too)
RegistrationResponses ==
    {[id |-> k, signed |-> c] : k \in CredIds, c \in Minted \cup {NoChallenge}}
AuthenticationResponses ==
    {[rawId |-> k, signed |-> c, count |-> n] :
        k \in CredIds, c \in Minted \cup {NoChallenge}, n \in SignCounts}

\* the responses worth telling apart with a request: the response is not read before
\* the challenge has been popped, and those bound to another challenge than the popped
\* one fail the verifier's comparison alike (NoChallenge stands for them)
ResponsesWith(key, responses) ==
    IF Popped(key) = NoChallenge THEN {CHOOSE c \in responses : TRUE}
    ELSE {c \in responses : c.signed \in {NoChallenge, Popped(key)}}

\* webauthn verify_*_response, the part on expected_challenge
BoundTo(signed, challenge) == signed = challenge

\* webauthn verify_authentication_response, the part on credential_current_sign_count:
\* it raises when (new > 0 or current > 0) and new <= current
SignCountAccepted(new, current) == ~((new > 0 \/ current > 0) /\ new <= current)

\* UPDATE v1.passkey_credentials SET sign_count = ? WHERE id = ?
UpdateSignCount(id, n) ==
    {IF k.id = id THEN [k EXCEPT !.sign_count = n] ELSE k : k \in passkey_credentials}

\* ------------------------------------------------------------- POST /passkeys/register/options

\* passkey_register_options: get_current_user, get_user_by_id, and the SELECT of the
\* user's credential ids for the exclusion list (the reads of v1.users are folded into
\* the statement that follows them: no step of this model writes v1.users meanwhile)
RegOptions(p, bearer) ==
    /\ Idle(p) /\ ChallengeBudget
    /\ LET r == [Blank EXCEPT !.op = "reg_options", !.standing = BearerStanding(bearer)]
           cu == CurrentUser(bearer) IN
        IF cu.status /= 200 THEN Finish(p, r, cu.status, cu.detail, 0)
        ELSE Continue(p, [r EXCEPT !.uid = cu.uid, !.list = CredentialIdsOf(cu.uid),
                                   !.pc = "store_challenge"])
    /\ UNCHANGED <<store, issued, expired, hist, ceremony>>

\* generate_passkey_registration_options: self._challenges[user.id] = options.challenge
RegOptionsStore(p) ==
    /\ req[p].op = "reg_options" /\ req[p].pc = "store_challenge"
    /\ LET g == minted.reg[req[p].uid] + 1 IN
        /\ challenges' = ChallengesPut(UserKey(req[p].uid), Challenge(UserKey(req[p].uid), g))
        /\ minted' = [minted EXCEPT !.challenge = @ + 1, !.reg[req[p].uid] = g]
        /\ Finish(p, req[p], 200, "", g)
    /\ UNCHANGED <<store, issued, expired, hist, passkey_credentials, consumed>>

\* ------------------------------------------------------------- POST /passkeys/register/verify

\* mutant: verify_passkey_registration reads the challenge with get and removes it only
\* once the response has verified
RegVerify_PopOnSuccess(p, bearer, credential) ==
    /\ Idle(p)
    /\ LET cu == CurrentUser(bearer)
           r == [Blank EXCEPT !.op = "reg_verify",
                              !.standing = IF cu.status = 200 THEN KeyStanding(UserKey(cu.uid))
                                           ELSE BearerStanding(bearer)]
           challenge == Popped(UserKey(cu.uid)) IN
        IF cu.status /= 200
        THEN /\ Finish(p, r, cu.status, cu.detail, 0)
             /\ UNCHANGED <<challenges, consumed>>
        ELSE IF challenge = NoChallenge
        THEN /\ Finish(p, r, 400, "No registration challenge found", 0)
             /\ UNCHANGED <<challenges, consumed>>
        ELSE /\ consumed' = Obtain(challenge)
             /\ IF BoundTo(credential.signed, challenge)
                THEN /\ challenges' = ChallengesPop(UserKey(cu.uid))
                     /\ Continue(p, [r EXCEPT !.uid = cu.uid, !.cred = credential.id,
                                              !.pc = "insert_passkey"])
                ELSE /\ challenges' = challenges
                     /\ Finish(p, r, 500, "InvalidRegistrationResponse", 0)
    /\ UNCHANGED <<store, issued, expired, hist, passkey_credentials, minted>>

\* passkey_register_verify: get_current_user, get_user_by_id, then
\* verify_passkey_registration pops the challenge and verifies the response against it;
\* the handler turns ValueError into 400 and catches nothing else
RegVerify(p, bearer, credential) ==
    /\ Idle(p)
    /\ LET cu == CurrentUser(bearer)
           r == [Blank EXCEPT !.op = "reg_verify",
                              !.standing = IF cu.status = 200 THEN KeyStanding(UserKey(cu.uid))
                                           ELSE BearerStanding(bearer)]
           challenge == Popped(UserKey(cu.uid)) IN
        IF cu.status /= 200
        THEN /\ Finish(p, r, cu.status, cu.detail, 0)
             /\ UNCHANGED <<challenges, consumed>>
        ELSE IF challenge = NoChallenge
        THEN /\ Finish(p, r, 400, "No registration challenge found", 0)
             /\ UNCHANGED <<challenges, consumed>>
        ELSE /\ challenges' = ChallengesPop(UserKey(cu.uid))
             /\ consumed' = Obtain(challenge)
             /\ IF BoundTo(credential.signed, challenge)
                THEN Continue(p, [r EXCEPT !.uid = cu.uid, !.cred = credential.id,
                                           !.pc = "insert_passkey"])
                ELSE Finish(p, r, 500, "InvalidRegistrationResponse", 0)
    /\ UNCHANGED <<store, issued, expired, hist, passkey_credentials, minted>>

\* verify_passkey_registration: INSERT INTO v1.passkey_credentials, with the counter of
\* a new authenticator (0) as sign_count
RegVerifyInsert(p) ==
    /\ req[p].op = "reg_verify" /\ req[p].pc = "insert_passkey"
    /\ LET row == [id |-> minted.passkey + 1, user_id |-> req[p].uid,
                   credential_id |-> req[p].cred, sign_count |-> 0] IN
        IF PasskeyConstraintOk(row)
        THEN /\ passkey_credentials' = passkey_credentials \cup {row}
             /\ minted' = [minted EXCEPT !.passkey = row.id]
             /\ Finish(p, req[p], 200, "", row.id)
        ELSE /\ UNCHANGED <<passkey_credentials, minted>>
             /\ Finish(p, req[p], 500, "ConstraintException", 0)
    /\ UNCHANGED <<store, issued, expired, hist, challenges, consumed>>

\* ------------------------------------------------------------- POST /login/passkey/options

\* mutant: the allow-list built without "WHERE user_id = ?" and without "if email"
AllowList_EveryCredential(e) == {k.credential_id : k \in passkey_credentials}

\* generate_passkey_authentication_options: "if email:", get_user_by_email, "if user:"
\* and the SELECT of that user's credential ids (an empty list is sent as no allow-list)
AllowList(e) ==
    IF Truthy(e) THEN UNION {CredentialIdsOf(u.id) : u \in GetUserByEmail(e)} ELSE {}

\* generate_passkey_authentication_options: get_user_by_email when an email is given,
\* and the SELECT of that user's credential ids for the allow-list
AuthOptions(p, e) ==
    /\ Idle(p) /\ ChallengeBudget
    /\ LET r == [Blank EXCEPT !.op = "auth_options"] IN
        Continue(p, [r EXCEPT !.list = AllowList(e), !.pc = "store_challenge"])
    /\ UNCHANGED <<store, issued, expired, hist, ceremony>>

\* self._challenges[challenge_key] = options.challenge, under a new random key
AuthOptionsStore(p) ==
    /\ req[p].op = "auth_options" /\ req[p].pc = "store_challenge"
    /\ LET n == minted.auth + 1 IN
        /\ challenges' = ChallengesPut(TokenKey(n), Challenge(TokenKey(n), 1))
        /\ minted' = [minted EXCEPT !.challenge = @ + 1, !.auth = n]
        /\ Finish(p, req[p], 200, "", n)
    /\ UNCHANGED <<store, issued, expired, hist, passkey_credentials, consumed>>

\* ------------------------------------------------------------- POST /login/passkey/verify

\* login_passkey_verify: 400 without "_challenge_key"; verify_passkey_authentication
\* pops the challenge; the handler turns ValueError into 401
AuthVerify(p, credential, key) ==
    /\ Idle(p)
    /\ LET owners == {u \in users : \E k \in GetPasskeyByCredentialId(credential.rawId) :
                                            k.user_id = u.id}
           r == [Blank EXCEPT !.op = "auth_verify", !.standing = KeyStanding(key),
                              !.disabled = Disabled(owners)]
           challenge == Popped(key) IN
        IF key = NoKey
        THEN /\ Finish(p, r, 400, "Missing challenge key", 0)
             /\ UNCHANGED <<challenges, consumed>>
        ELSE IF challenge = NoChallenge
        THEN /\ Finish(p, r, 401, "No authentication challenge found", 0)
             /\ UNCHANGED <<challenges, consumed>>
        ELSE /\ challenges' = ChallengesPop(key)
             /\ consumed' = Obtain(challenge)
             /\ Continue(p, [r EXCEPT !.cred = credential.rawId, !.count = credential.count,
                                      !.bound = BoundTo(credential.signed, challenge),
                                      !.pc = "select_passkey"])
    /\ UNCHANGED <<store, issued, expired, hist, passkey_credentials, minted>>

\* mutant: the UPDATE of sign_count moved before verify_authentication_response
AuthVerifySelect_UpdateFirst(p) ==
    /\ req[p].op = "auth_verify" /\ req[p].pc = "select_passkey"
    /\ LET db_cred == GetPasskeyByCredentialId(req[p].cred) IN
        IF db_cred = {}
        THEN /\ Finish(p, req[p], 401, "Credential not found", 0)
             /\ UNCHANGED passkey_credentials
        ELSE LET k == CHOOSE k \in db_cred : TRUE IN
             /\ passkey_credentials' = UpdateSignCount(k.id, req[p].count)
             /\ IF req[p].bound /\ SignCountAccepted(req[p].count, k.sign_count)
                THEN Continue(p, [req[p] EXCEPT !.row = k.id, !.uid = k.user_id, !.cred = "",
                                                !.bound = FALSE, !.pc = "update_sign_count"])
                ELSE Finish(p, req[p], 500, "InvalidAuthenticationResponse", 0)
    /\ UNCHANGED <<store, issued, expired, hist, challenges, minted, consumed>>

\* verify_passkey_authentication: SELECT the row of the credential id, then
\* verify_authentication_response against the sign_count just read; what the verifier
\* raises is no ValueError and passes through the handler
AuthVerifySelect(p) ==
    /\ req[p].op = "auth_verify" /\ req[p].pc = "select_passkey"
    /\ LET db_cred == GetPasskeyByCredentialId(req[p].cred) IN
        IF db_cred = {} THEN Finish(p, req[p], 401, "Credential not found", 0)
        ELSE LET k == CHOOSE k \in db_cred : TRUE IN
             IF req[p].bound /\ SignCountAccepted(req[p].count, k.sign_count)
             THEN Continue(p, [req[p] EXCEPT !.row = k.id, !.uid = k.user_id, !.cred = "",
                                             !.bound = FALSE, !.pc = "update_sign_count"])
             ELSE Finish(p, req[p], 500, "InvalidAuthenticationResponse", 0)
    /\ UNCHANGED <<store, issued, expired, hist, ceremony>>

\* mutant: the user read without "WHERE id = ?", the first row of v1.users
AuthVerifyUpdate_AnyUser(p) ==
    /\ req[p].op = "auth_verify" /\ req[p].pc = "update_sign_count"
    /\ passkey_credentials' = UpdateSignCount(req[p].row, req[p].count)
    /\ LET found == {u \in users : \A v \in users : u.id <= v.id} IN
        IF found = {} THEN Finish(p, req[p], 401, "User not found", 0)
        ELSE IF \E u \in found : ~u.is_active THEN Finish(p, req[p], 401, "Account is disabled", 0)
        ELSE Continue(p, [req[p] EXCEPT !.uid = (CHOOSE u \in found : TRUE).id,
                                        !.row = 0, !.count = 0, !.pc = "create_tokens"])
    /\ UNCHANGED <<store, issued, expired, hist, challenges, minted, consumed>>

\* verify_passkey_authentication: UPDATE sign_count, then get_user_by_id(user_id) and
\* the handler's is_active check
AuthVerifyUpdate(p) ==
    /\ req[p].op = "auth_verify" /\ req[p].pc = "update_sign_count"
    /\ passkey_credentials' = UpdateSignCount(req[p].row, req[p].count)
    /\ LET found == GetUserById(req[p].uid) IN
        IF found = {} THEN Finish(p, req[p], 401, "User not found", 0)
        ELSE IF \E u \in found : ~u.is_active THEN Finish(p, req[p], 401, "Account is disabled", 0)
        ELSE Continue(p, [req[p] EXCEPT !.row = 0, !.count = 0, !.pc = "create_tokens"])
    /\ UNCHANGED <<store, issued, expired, hist, challenges, minted, consumed>>

\* ------------------------------------------------------------- GET /me, GET and DELETE /passkeys

\* get_current_user_info: the user that get_current_user resolved
Me(p, bearer) ==
    /\ Idle(p)
    /\ LET cu == CurrentUser(bearer) IN
        Finish(p, [Blank EXCEPT !.op = "me", !.standing = BearerStanding(bearer)],
               cu.status, cu.detail, cu.uid)
    /\ UNCHANGED <<store, issued, expired, hist, ceremony>>

\* SELECT id, ... FROM v1.passkey_credentials WHERE user_id = ?
ListUserPasskeys(uid) == {k.id : k \in {x \in passkey_credentials : x.user_id = uid}}

\* list_passkeys: list_user_passkeys(current_user.id)
ListPasskeys(p, bearer) ==
    /\ Idle(p)
    /\ LET cu == CurrentUser(bearer)
           r == [Blank EXCEPT !.op = "list_passkeys", !.standing = BearerStanding(bearer)] IN
        IF cu.status /= 200 THEN Finish(p, r, cu.status, cu.detail, 0)
        ELSE Finish(p, [r EXCEPT !.list = ListUserPasskeys(cu.uid)], 200, "", 0)
    /\ UNCHANGED <<store, issued, expired, hist, ceremony>>

\* the passkey ids a client can put in the path: those of the rows made so far, and one
\* (0) that no row has
PasskeyIds == 0..minted.passkey

\* mutant: DELETE FROM v1.passkey_credentials WHERE id = ?
DeleteMatched_AnyOwner(uid, id) == {k \in passkey_credentials : k.id = id}

\* the rows matched by  WHERE id = ? AND user_id = ?
DeleteMatched(uid, id) == {k \in passkey_credentials : k.id = id /\ k.user_id = uid}

\* history: how passkey id stands to user uid when the request arrives
PasskeyStanding(uid, id) ==
    IF \A k \in passkey_credentials : k.id /= id THEN "unknown"
    ELSE IF \E k \in passkey_credentials : k.id = id /\ k.user_id = uid THEN "owner"
    ELSE "not_owner"

\* delete_passkey: DELETE FROM v1.passkey_credentials, 404 when result.rowcount is 0
DeletePasskey(p, bearer, id) ==
    /\ Idle(p)
    /\ LET cu == CurrentUser(bearer)
           r == [Blank EXCEPT !.op = "delete_passkey",
                              !.standing = IF cu.status = 200 THEN PasskeyStanding(cu.uid, id)
                                           ELSE BearerStanding(bearer)]
           matched == DeleteMatched(cu.uid, id) IN
        IF cu.status /= 200
        THEN /\ Finish(p, r, cu.status, cu.detail, 0)
             /\ UNCHANGED passkey_credentials
        ELSE /\ passkey_credentials' = passkey_credentials \ matched
             /\ IF matched = {} THEN Finish(p, r, 404, "Passkey not found", 0)
                ELSE Finish(p, r, 204, "", Cardinality(matched))
    /\ UNCHANGED <<store, issued, expired, hist, challenges, minted, consumed>>

\* ------------------------------------------------------------- environment

\* time passes: the oldest unexpired refresh token expires (and its access token, which
\* lives 15 minutes against 30 days, has expired by then)
RefreshExpires ==
    /\ expired.refresh < Cardinality(issued) /\ expired.refresh < MaxExpired
    /\ expired' = [access |-> IF expired.access > expired.refresh THEN expired.access
                                ELSE expired.refresh + 1,
                    refresh |-> expired.refresh + 1]
    /\ UNCHANGED <<store, issued, hist, req, resp, ceremony>>

\* time passes: the oldest unexpired access token expires (15 minutes after it was
\* issued, long before its refresh token)
AccessExpires ==
    /\ expired.access < Cardinality(issued) /\ expired.access < MaxExpired
    /\ expired' = [expired EXCEPT !.access = @ + 1]
    /\ UNCHANGED <<store, issued, hist, req, resp, ceremony>>

\* an account-management flow outside this repository sets is_active of user uid to b
\* (history: a request in flight no longer counts as made on a disabled account once an
\* account has been enabled)
SetActive(uid, b) ==
    /\ \E u \in users : u.id = uid /\ u.is_active /= b
    /\ users' = {IF u.id = uid THEN [u EXCEPT !.is_active = b] ELSE u : u \in users}
    /\ req' = [p \in Procs |-> IF b THEN [req[p] EXCEPT !.disabled = FALSE] ELSE req[p]]
    /\ UNCHANGED <<password_credentials, refresh_tokens, issued, expired, hist, resp, ceremony>>

\* ------------------------------------------------------------- specification

Next ==
    \/ \E p \in Procs, e \in Emails, pw \in RegisterPasswords : Register(p, e, pw)
    \/ \E p \in Procs : RegisterInsertUser(p)
    \/ \E p \in Procs : SetPasswordSelect(p)
    \/ \E p \in Procs : SetPasswordWrite(p)
    \/ \E p \in Procs : CreateTokens(p)
    \/ \E p \in Procs, e \in Emails, pw \in LoginPasswords : LoginPassword(p, e, pw)
    \/ \E p \in Procs : LoginVerify(p)
    \/ \E p \in Procs, tok \in Presentable : Refresh(p, tok)
    \/ \E p \in Procs : RefreshRevoke(p)
    \/ \E p \in Procs : RefreshGetUser(p)
    \/ \E p \in Procs, tok \in Presentable : Logout(p, tok)
    \/ \E p \in Procs, uid \in 1..MaxUsers : RevokeAllUserTokens(p, uid)
    \/ RefreshExpires

Spec == Init /\ [][Next]_vars

\* ------------------------------------------------------------- passkey ceremonies

\* the state after register("a@x", "pw") and register("b@x", "pw") have been answered,
\* and user 1 has then enrolled passkey "k1": registration options (challenge 1, stored
\* under the user's id) and registration verify, which inserted passkey row 1
InitPasskey ==
    /\ users = {NewUserRow(1, "a@x"), NewUserRow(2, "b@x")}
    /\ password_credentials = {[user_id |-> u, password_hash |-> Argon2Hash("pw")] : u \in 1..2}
    /\ refresh_tokens = {[id |-> u, user_id |-> u, token_hash |-> Sha256(RefreshToken(u, u)),
                          revoked |-> FALSE] : u \in 1..2}
    /\ issued = {[sub |-> u, jti |-> u, from |-> 0] : u \in 1..2}
    /\ expired = [access |-> 0, refresh |-> 0]
    /\ revokedBy = [n \in 1..2 |-> ""]
    /\ registered = [u \in 1..2 |-> [password |-> "pw", done |-> TRUE, set |-> {"pw"}]]
    /\ passkey_credentials =
            {[id |-> 1, user_id |-> 1, credential_id |-> "k1", sign_count |-> 0]}
    /\ challenges = <<>>
    /\ minted = [NoneMinted EXCEPT !.challenge = 1, !.reg[1] = 1, !.passkey = 1]
    /\ consumed = [c \in {Challenge(UserKey(1), 1)} |-> 1]
    /\ req = [p \in Procs |-> Blank]
    /\ resp = Answer([Blank EXCEPT !.op = "reg_verify", !.standing = "pending"], 200, "", 1)

NextPasskey ==
    \/ \E p \in Procs, b \in Bearers : RegOptions(p, b)
    \/ \E p \in Procs : RegOptionsStore(p)
    \/ \E p \in Procs, b \in Bearers :
          \E c \in ResponsesWith(UserKey(CurrentUser(b).uid), RegistrationResponses) :
              RegVerify(p, b, c)
    \/ \E p \in Procs : RegVerifyInsert(p)
    \/ \E p \in Procs, e \in OptionEmails : AuthOptions(p, e)
    \/ \E p \in Procs : AuthOptionsStore(p)
    \/ \E p \in Procs, k \in ChallengeKeys :
          \E c \in ResponsesWith(k, AuthenticationResponses) : AuthVerify(p, c, k)
    \/ \E p \in Procs : AuthVerifySelect(p)
    \/ \E p \in Procs : AuthVerifyUpdate(p)
    \/ \E p \in Procs : CreateTokens(p)
    \/ \E p \in Procs, b \in Bearers, id \in PasskeyIds : DeletePasskey(p, b, id)

SpecPasskey == InitPasskey /\ [][NextPasskey]_vars

\* ------------------------------------------------------------- bearer routes and rotation

NextBearer ==
    \/ \E p \in Procs, b \in Bearers : Me(p, b)
    \/ \E p \in Procs, b \in Bearers : ListPasskeys(p, b)
    \/ \E p \in Procs, b \in Bearers, id \in PasskeyIds : DeletePasskey(p, b, id)
    \/ \E p \in Procs, b \in Bearers : RegOptions(p, b)
    \/ \E p \in Procs : RegOptionsStore(p)
    \/ \E p \in Procs, b \in Bearers :
          \E c \in ResponsesWith(UserKey(CurrentUser(b).uid), RegistrationResponses) :
              RegVerify(p, b, c)
    \/ \E p \in Procs : RegVerifyInsert(p)
    \/ \E p \in Procs, tok \in Presentable : Refresh(p, tok)
    \/ \E p \in Procs : RefreshRevoke(p)
    \/ \E p \in Procs : RefreshGetUser(p)
    \/ \E p \in Procs : CreateTokens(p)

SpecBearer == InitPasskey /\ [][NextBearer]_vars

\* ------------------------------------------------------------- passwords

\* the state after register("a@x", "pw") has been answered by a deployment whose
\* PasswordHasher had lower cost parameters than the present one
InitPassword ==
    /\ users = {NewUserRow(1, "a@x")}
    /\ password_credentials = {[user_id |-> 1, password_hash |-> OutdatedHash("pw")]}
    /\ refresh_tokens = {[id |-> 1, user_id |-> 1, token_hash |-> Sha256(RefreshToken(1, 1)),
                          revoked |-> FALSE]}
    /\ issued = {[sub |-> 1, jti |-> 1, from |-> 0]}
    /\ expired = [access |-> 0, refresh |-> 0]
    /\ revokedBy = [n \in 1..1 |-> ""]
    /\ registered = [u \in 1..1 |-> [password |-> "pw", done |-> TRUE, set |-> {"pw"}]]
    /\ passkey_credentials = {}
    /\ challenges = <<>>
    /\ minted = NoneMinted
    /\ consumed = <<>>
    /\ req = [p \in Procs |-> Blank]
    /\ resp = Answer([Blank EXCEPT !.op = "register"], 200, "", 1)

NextPassword ==
    \/ \E p \in Procs, e \in Emails, pw \in RegisterPasswords : Register(p, e, pw)
    \/ \E p \in Procs : RegisterInsertUser(p)
    \/ \E p \in Procs : SetPasswordSelect(p)
    \/ \E p \in Procs : SetPasswordWrite(p)
    \/ \E p \in Procs : CreateTokens(p)
    \/ \E p \in Procs, uid \in 1..MaxUsers, pw \in SetPasswords : SetPassword(p, uid, pw)
    \/ \E p \in Procs, uid \in 1..MaxUsers, pw \in SetPasswords : VerifyPasswordCall(p, uid, pw)

SpecPassword == InitPassword /\ [][NextPassword]_vars

\* ------------------------------------------------------------- disabled accounts

\* the state after register("a@x", "pw") has been answered and user 1 has enrolled
\* passkey "k1"
InitAccount ==
    /\ users = {NewUserRow(1, "a@x")}
    /\ password_credentials = {[user_id |-> 1, password_hash |-> Argon2Hash("pw")]}
    /\ refresh_tokens = {[id |-> 1, user_id |-> 1, token_hash |-> Sha256(RefreshToken(1, 1)),
                          revoked |-> FALSE]}
    /\ issued = {[sub |-> 1, jti |-> 1, from |-> 0]}
    /\ expired = [access |-> 0, refresh |-> 0]
    /\ revokedBy = [n \in 1..1 |-> ""]
    /\ registered = [u \in 1..1 |-> [password |-> "pw", done |-> TRUE, set |-> {"pw"}]]
    /\ passkey_credentials =
            {[id |-> 1, user_id |-> 1, credential_id |-> "k1", sign_count |-> 0]}
    /\ challenges = <<>>
    /\ minted = [NoneMinted EXCEPT !.challenge = 1, !.reg[1] = 1, !.passkey = 1]
    /\ consumed = [c \in {Challenge(UserKey(1), 1)} |-> 1]
    /\ req = [p \in Procs |-> Blank]
    /\ resp = Answer([Blank EXCEPT !.op = "reg_verify", !.standing = "pending"], 200, "", 1)

\* the assertions of the enrolled authenticator, with a counter that has moved on
AccountResponses(key) ==
    {c \in ResponsesWith(key, AuthenticationResponses) : c.rawId = "k1" /\ c.count > 0}

NextAccount ==
    \/ \E u \in 1..MaxUsers, b \in BOOLEAN : SetActive(u, b)
    \/ \E p \in Procs, e \in LoginEmails, pw \in LoginPasswords : LoginPassword(p, e, pw)
    \/ \E p \in Procs : LoginVerify(p)
    \/ \E p \in Procs, tok \in Presentable : Refresh(p, tok)
    \/ \E p \in Procs : RefreshRevoke(p)
    \/ \E p \in Procs : RefreshGetUser(p)
    \/ \E p \in Procs : AuthOptions(p, "")
    \/ \E p \in Procs : AuthOptionsStore(p)
    \/ \E p \in Procs, k \in ChallengeKeys : \E c \in AccountResponses(k) : AuthVerify(p, c, k)
    \/ \E p \in Procs : AuthVerifySelect(p)
    \/ \E p \in Procs : AuthVerifyUpdate(p)
    \/ \E p \in Procs : CreateTokens(p)

SpecAccount == InitAccount /\ [][NextAccount]_vars

\* ------------------------------------------------------------- deleted passkeys

\* one user, who has enrolled passkey "k1" (InitAccount), deletes and enrols passkeys
\* while assertions of the authenticator that holds "k1" are presented
NextDelete ==
    \/ \E p \in Procs, b \in Bearers, id \in PasskeyIds : DeletePasskey(p, b, id)
    \/ \E p \in Procs, b \in Bearers : RegOptions(p, b)
    \/ \E p \in Procs : RegOptionsStore(p)
    \/ \E p \in Procs, b \in Bearers :
          \E c \in ResponsesWith(UserKey(CurrentUser(b).uid), RegistrationResponses) :
              RegVerify(p, b, c)
    \/ \E p \in Procs : RegVerifyInsert(p)
    \/ \E p \in Procs : AuthOptions(p, "")
    \/ \E p \in Procs : AuthOptionsStore(p)
    \/ \E p \in Procs, k \in ChallengeKeys : \E c \in AccountResponses(k) : AuthVerify(p, c, k)
    \/ \E p \in Procs : AuthVerifySelect(p)
    \/ \E p \in Procs : AuthVerifyUpdate(p)
    \/ \E p \in Procs : CreateTokens(p)

SpecDelete == InitAccount /\ [][NextDelete]_vars

\* ------------------------------------------------------------- access tokens

\* one user (InitAccount) calls /me while refresh tokens are rotated and revoked, the
\* access token of the first pair expires, and the account is disabled and enabled
NextAccess ==
    \/ \E p \in Procs, b \in Bearers : Me(p, b)
    \/ \E p \in Procs, tok \in Presentable : Refresh(p, tok)
    \/ \E p \in Procs : RefreshRevoke(p)
    \/ \E p \in Procs : RefreshGetUser(p)
    \/ \E p \in Procs : CreateTokens(p)
    \/ \E p \in Procs, tok \in Presentable : Logout(p, tok)
    \/ \E p \in Procs, uid \in 1..MaxUsers : RevokeAllUserTokens(p, uid)
    \/ \E u \in 1..MaxUsers, b \in BOOLEAN : SetActive(u, b)
    \/ AccessExpires

SpecAccess == InitAccount /\ [][NextAccess]_vars

\* ------------------------------------------------------------- bearer routes of a disabled account

\* one user with a passkey (InitAccount) uses the bearer routes while the account is
\* disabled and enabled
NextInactive ==
    \/ \E p \in Procs, b \in Bearers : Me(p, b)
    \/ \E p \in Procs, b \in Bearers : ListPasskeys(p, b)
    \/ \E p \in Procs, b \in Bearers, id \in PasskeyIds : DeletePasskey(p, b, id)
    \/ \E p \in Procs, b \in Bearers : RegOptions(p, b)
    \/ \E p \in Procs : RegOptionsStore(p)
    \/ \E p \in Procs, b \in Bearers :
          \E c \in ResponsesWith(UserKey(CurrentUser(b).uid), RegistrationResponses) :
              RegVerify(p, b, c)
    \/ \E p \in Procs : RegVerifyInsert(p)
    \/ \E u \in 1..MaxUsers, b \in BOOLEAN : SetActive(u, b)

SpecInactive == InitAccount /\ [][NextInactive]_vars

\* ============================================================= claims

\* the row of refresh token tok, if any
RowOf(tok) == {r \in refresh_tokens : r.token_hash = Sha256(tok)}

\* C1: once a pair has been issued from refresh token T, a refresh request that
\* arrives with T is answered 401 and issues no pair
C1_ReplayAfterRotationFails ==
    (resp.op = "refresh" /\ resp.standing = "rotated") => (resp.status = 401 /\ resp.ret = 0)

C1_Witness == resp.op = "refresh" /\ resp.standing = "rotated" /\ resp.status = 401

\* C2: at most one token pair is ever issued from one refresh token, also when the
\* rotations run concurrently
C2_OnePairPerRefreshToken ==
    \A i, j \in issued : (i.from /= 0 /\ i.from = j.from) => i = j

\* C3: no step removes a refresh-token row or changes its id, owner or hash, and a
\* row that is revoked stays revoked
C3_RevokedIsMonotonic ==
    [][\A r \in refresh_tokens : \E r2 \in refresh_tokens' :
          /\ r2.id = r.id /\ r2.user_id = r.user_id /\ r2.token_hash = r.token_hash
          /\ (r.revoked => r2.revoked)]_vars

C3_Witness ==
    /\ \E r \in refresh_tokens : r.revoked /\ revokedBy[r.id] = "revoke"
    /\ \E r \in refresh_tokens : r.revoked /\ revokedBy[r.id] = "rotation"
    /\ \E r \in refresh_tokens : ~r.revoked

\* C4: no challenge is obtained twice; a verify request stays in flight only when its
\* key had a challenge pending; one that arrives with a key that has none (never
\* stored, or already consumed) is answered "No ... challenge found" and changes no
\* passkey row and no token row
C4_ChallengeConsumedAtMostOnce ==
    /\ [](\A c \in DOMAIN consumed : consumed[c] <= 1)
    /\ [](\A p \in Procs : (req[p].pc /= "done" /\ req[p].op \in {"reg_verify", "auth_verify"})
                                => req[p].standing = "pending")
    /\ [][(resp' /= resp /\ resp'.standing \in {"spent", "absent"}) =>
              /\ \/ resp'.op = "auth_verify" /\ resp'.status = 401
                                             /\ resp'.detail = "No authentication challenge found"
                 \/ resp'.op = "reg_verify" /\ resp'.status = 400
                                            /\ resp'.detail = "No registration challenge found"
              /\ UNCHANGED <<passkey_credentials, refresh_tokens, issued, challenges>>]_vars

\* a verify attempt obtained the challenge of a key, and a second one with the same key
\* arrived while the first was still running and was refused
C4_Witness ==
    /\ resp.op = "auth_verify" /\ resp.standing = "spent"
    /\ resp.detail = "No authentication challenge found"
    /\ \E p \in Procs : req[p].op = "auth_verify" /\ req[p].pc = "update_sign_count"

\* this step lowers the sign_count of no passkey row
NoStepLowersSignCount ==
    \A k \in passkey_credentials, k2 \in passkey_credentials' :
        k2.id = k.id => k2.sign_count >= k.sign_count

\* an assertion that this step accepts has a counter above the sign_count it read
AcceptedOnlyAbove ==
    \A p \in Procs :
        (req[p].pc = "select_passkey" /\ req'[p].pc = "update_sign_count")
            => \A k \in GetPasskeyByCredentialId(req[p].cred) : req[p].count > k.sign_count

\* C5: no step lowers the sign_count of a passkey row, also when two authentications
\* of one passkey interleave, and an assertion is accepted only when its counter is
\* above the stored sign_count
C5_SignCountNeverDecreases == [][NoStepLowersSignCount /\ AcceptedOnlyAbove]_vars

\* C6: after register(email, password) has been answered, login_password with the
\* same email and password finds the user, passes verify_password, and is answered
\* 200 with a pair whose access token verifies to the registered user's id
C6_RegisterThenLoginRoundTrip ==
    [][\A p \in Procs :
          /\ \A e \in Emails, pw \in LoginPasswords, u \in users :
                (/\ LoginPassword(p, e, pw)
                 /\ Lower(e) = u.email /\ u.is_active
                 /\ registered[u.id].done /\ registered[u.id].password = pw)
                    => (req'[p].pc = "verify" /\ req'[p].uid = u.id)
          /\ (/\ req[p].op = "login" /\ req[p].pc = "verify" /\ req'[p] /= req[p]
              /\ registered[req[p].uid].done
              /\ registered[req[p].uid].password = req[p].password)
                    => req'[p].pc = "create_tokens"
          /\ (req[p].op = "login" /\ CreateTokens(p))
                    => /\ resp'.status = 200
                       /\ \E i \in issued' \ issued :
                            /\ i.jti = resp'.ret
                            /\ VerifyAccessToken(AccessToken(i.sub, i.jti)).sub = req[p].uid
       ]_vars

\* C7: no two user rows have the same lower-cased email
C7_EmailsUniqueIgnoringCase ==
    \A u, v \in users : Lower(u.email) = Lower(v.email) => u = v

\* two registers passed the lookup for emails that differ only in case, and the
\* first has inserted its row
C7_Witness ==
    /\ \E u \in users : u.email = "a@x"
    /\ \E p \in Procs : req[p].op = "register" /\ req[p].pc = "insert_user" /\ req[p].email = "A@x"

\* C8: a register request whose email is already registered, compared without case,
\* is answered 400 in its first step and changes no table
C8_RegisterTakenEmailIs400 ==
    [][\A p \in Procs, e \in Emails, pw \in RegisterPasswords :
          (Register(p, e, pw) /\ \E u \in users : Lower(u.email) = Lower(e))
              => /\ resp'.op = "register" /\ resp'.status = 400
                 /\ req'[p] = Blank
                 /\ UNCHANGED <<users, password_credentials, refresh_tokens, issued>>]_vars

C8_Witness == resp.op = "register" /\ resp.status = 400 /\ users /= {}

\* C9: a refresh request that arrives with a token whose row was revoked by logout
\* or revoke_all_user_tokens, or whose signature or expiry check fails, or whose type
\* is not "refresh", or that has no row, is answered 401 and changes no row
C9_RevokedOrInvalidRefreshFails ==
    [][\A p \in Procs, tok \in Presentable :
          (/\ Refresh(p, tok)
           /\ \/ ~tok.sig
              \/ Expired(tok)
              \/ tok.typ /= "refresh"
              \/ RowOf(tok) = {}
              \/ \E r \in RowOf(tok) : r.revoked /\ revokedBy[r.id] = "revoke")
              => /\ resp'.op = "refresh" /\ resp'.status = 401 /\ resp'.ret = 0
                 /\ req'[p] = Blank
                 /\ UNCHANGED <<users, password_credentials, refresh_tokens, issued>>]_vars

C9_Witness == resp.op = "refresh" /\ resp.standing = "revoked" /\ resp.status = 401

\* C10: logout is answered 204; revoke_refresh_token matches no row (returns False)
\* and changes nothing when the token has no row or its row is revoked; otherwise it
\* revokes that one row; after it the token has no unrevoked row, so a second call
\* matches nothing
C10_RevokeIsIdempotent ==
    [][\A p \in Procs, tok \in Presentable :
          Logout(p, tok) =>
              /\ resp'.op = "logout" /\ resp'.status = 204
              /\ UNCHANGED <<users, password_credentials, issued>>
              /\ LET live == {r \in RowOf(tok) : ~r.revoked} IN
                    IF live = {}
                    THEN resp'.ret = 0 /\ refresh_tokens' = refresh_tokens
                    ELSE /\ resp'.ret = 1
                         /\ refresh_tokens' = (refresh_tokens \ live) \cup
                                {[r EXCEPT !.revoked = TRUE] : r \in live}
              /\ \A r \in refresh_tokens' : r.token_hash = Sha256(tok) => r.revoked]_vars

C10_Witness ==
    resp.op = "logout" /\ resp.standing = "revoked" /\ resp.status = 204 /\ resp.ret = 0

\* how verify_passkey_registration and verify_passkey_authentication fail
VerifyFailures ==
    {"No registration challenge found", "InvalidRegistrationResponse", "ConstraintException",
     "No authentication challenge found", "Credential not found",
     "InvalidAuthenticationResponse", "User not found"}

\* this step answers a request
Answers == resp' /= resp \/ \E p \in Procs : req[p].pc /= "done" /\ req'[p] = Blank

\* C11: a step that answers a passkey verify request with a failure of the service call
\* changes no passkey row, and the only steps of such a request that change a passkey
\* row are the INSERT that ends a successful verify_passkey_registration and the UPDATE
\* after which verify_passkey_authentication returns the user
C11_NoPartialStateOnFailure ==
    [][/\ (/\ Answers
           /\ resp'.op \in {"reg_verify", "auth_verify"}
           /\ resp'.detail \in VerifyFailures) => UNCHANGED passkey_credentials
       /\ \A p \in Procs :
            (/\ req[p].pc /= "done" /\ req[p].op \in {"reg_verify", "auth_verify"}
             /\ req'[p] /= req[p]
             /\ passkey_credentials' /= passkey_credentials)
                => \/ req[p].op = "reg_verify" /\ resp'.op = "reg_verify" /\ resp'.status = 200
                   \/ req[p].op = "auth_verify" /\ req'[p].pc = "create_tokens"
                   \/ req[p].op = "auth_verify" /\ resp'.detail = "Account is disabled"]_vars

\* the verifier has rejected an assertion for a passkey that was used before
C11_Witness ==
    /\ resp.op = "auth_verify" /\ resp.detail = "InvalidAuthenticationResponse"
    /\ \E k \in passkey_credentials : k.sign_count > 0

\* C12: every failure inside verify_passkey_authentication is answered 401 by
\* login_passkey_verify and every failure inside verify_passkey_registration is
\* answered 400 by passkey_register_verify: none leaves the handler uncaught (500)
C12_CeremonyFailuresAreCaught ==
    (resp.detail \in VerifyFailures) =>
        /\ resp.op = "auth_verify" => resp.status = 401
        /\ resp.op = "reg_verify" => resp.status = 400

\* what login_password answers when no user has the email
AnswerForUnknownEmail == [status |-> 401, detail |-> "Invalid email or password"]

\* the password pw is the one stored for the user with email e
PasswordMatches(e, pw) == \E u \in GetUserByEmail(e) : VerifyPassword(u.id, pw)

\* C13: a login_password request whose password does not match is answered as a
\* request for an e-mail that no user has, whatever the state of the account: on
\* arrival when it is answered at once, and after verify_password otherwise
C13_WrongPasswordAnswerIsUniform ==
    [][\A p \in Procs :
          /\ \A e \in LoginEmails, pw \in LoginPasswords :
                (LoginPassword(p, e, pw) /\ ~PasswordMatches(e, pw) /\ req'[p] = Blank)
                    => /\ resp'.status = AnswerForUnknownEmail.status
                       /\ resp'.detail = AnswerForUnknownEmail.detail
          /\ (/\ req[p].op = "login" /\ req[p].pc = "verify" /\ req'[p] = Blank
              /\ ~VerifyPassword(req[p].uid, req[p].password))
                    => /\ resp'.status = AnswerForUnknownEmail.status
                       /\ resp'.detail = AnswerForUnknownEmail.detail]_vars

\* the tables, the challenge cache and the pairs handed out stay as they are
NothingChanges ==
    UNCHANGED <<users, password_credentials, refresh_tokens, issued, passkey_credentials,
                challenges>>

\* the routes behind get_current_user
BearerRoutes == {"me", "list_passkeys", "delete_passkey", "reg_options", "reg_verify"}

\* C14: verify_access_token returns None for every presentable token that is not an
\* access token; a bearer-protected route that is called with a refresh token the server
\* signed answers 401 at once (no such request stays in flight) and changes nothing; and
\* a refresh request that arrives with an access token is answered 401 at once and
\* revokes nothing
C14_TokenTypesNotInterchangeable ==
    /\ [](\A b \in Bearers \cup Presentable : b.typ /= "access" => VerifyAccessToken(b) = None)
    /\ [](\A p \in Procs :
            /\ (req[p].pc /= "done" /\ req[p].op \in BearerRoutes) => req[p].standing /= "refresh"
            /\ (req[p].pc /= "done" /\ req[p].op = "refresh") => req[p].standing /= "access")
    /\ [][(Answers /\ resp'.op \in BearerRoutes /\ resp'.standing = "refresh")
             => (resp'.status = 401 /\ NothingChanges)]_vars
    /\ [][(Answers /\ resp'.op = "refresh" /\ resp'.standing = "access")
             => (resp'.status = 401 /\ resp'.ret = 0 /\ NothingChanges)]_vars

\* a refresh token of the server was presented as bearer token and refused
C14_Witness ==
    resp.op \in {"me", "list_passkeys", "delete_passkey", "reg_options", "reg_verify"}
        /\ resp.standing = "refresh" /\ resp.status = 401

\* an access token of the server was presented to /refresh and refused
C14_WitnessRefresh == resp.op = "refresh" /\ resp.standing = "access" /\ resp.status = 401

\* the requests that end in create_tokens for an existing account
LoginRoutes == {"login", "auth_verify", "refresh"}

\* C15: a login_password, login_passkey_verify or refresh request on an account that is
\* disabled when the request arrives and is not enabled while it runs never reaches
\* create_tokens; it is answered with a failure (401 from login_password and refresh;
\* 401 from login_passkey_verify once the challenge key is there and the verifier has
\* accepted the assertion), and the step that answers it issues no pair and adds no
\* refresh-token row
C15_NoTokensForDisabledAccount ==
    /\ [](\A p \in Procs : req[p].pc = "create_tokens" => ~req[p].disabled)
    /\ [][(Answers /\ resp'.disabled /\ resp'.op \in LoginRoutes)
             => /\ resp'.status /= 200
                /\ resp'.detail \notin {"Missing challenge key", "InvalidAuthenticationResponse"}
                        => resp'.status = 401
                /\ issued' = issued
                /\ {r.id : r \in refresh_tokens'} = {r.id : r \in refresh_tokens}]_vars

\* a passkey login on a disabled account passed the verifier and was refused, and a
\* refresh on a disabled account was refused
C15_Witness ==
    /\ resp.op = "auth_verify" /\ resp.disabled /\ resp.detail = "Account is disabled"
    /\ \E r \in refresh_tokens : r.revoked /\ revokedBy[r.id] = "rotation"
    /\ \A i \in issued : i.from = 0

\* C16: the exclusion list that generate_passkey_registration_options reads for user u
\* holds the credential id of each passkey row of u and of no other row, and is the list
\* that the options answer carries; a credential that a registration verify has just
\* stored for u is among the credential ids of u's rows, and one that a delete has just
\* removed is not
C16_ExclusionListIsUsersCredentials ==
    [][\A p \in Procs :
          /\ (req[p].pc = "done" /\ req'[p].op = "reg_options" /\ req'[p].pc = "store_challenge")
                => /\ \A k \in passkey_credentials :
                        (k.credential_id \in req'[p].list) <=> (k.user_id = req'[p].uid)
                   /\ \A c \in req'[p].list : \E k \in passkey_credentials : k.credential_id = c
          /\ (req[p].op = "reg_options" /\ req[p].pc = "store_challenge" /\ req'[p] = Blank)
                => (resp'.status = 200 /\ resp'.list = req[p].list)
          /\ (/\ req[p].op = "reg_verify" /\ req[p].pc = "insert_passkey" /\ req'[p] = Blank
              /\ resp'.op = "reg_verify" /\ resp'.status = 200)
                => \E k \in passkey_credentials' :
                        k.user_id = req[p].uid /\ k.credential_id = req[p].cred
          /\ (Answers /\ resp'.op = "delete_passkey" /\ resp'.status = 204)
                => \A k \in passkey_credentials \ passkey_credentials' :
                        \A x \in passkey_credentials' : x.credential_id /= k.credential_id
       ]_vars

\* options were answered with an exclusion list that holds the user's credential and not
\* the credential of the other user's passkey; a passkey has been deleted before
C16_Witness ==
    /\ resp.op = "reg_options" /\ resp.status = 200 /\ resp.list = {"k2"}
    /\ \E k \in passkey_credentials : k.credential_id = "k1"
    /\ minted.passkey > Cardinality(passkey_credentials)

\* C17: DELETE /passkeys/{id} by an authenticated user is answered 404 and changes no
\* passkey row when no row has this id or the row is another user's; when the row is the
\* caller's it is answered 204 and removes this row and no other; without a valid
\* bearer token it is answered 401 and changes no row; nothing else is written
C17_DeletePasskeyIsOwnerScoped ==
    [][(Answers /\ resp'.op = "delete_passkey") =>
          /\ UNCHANGED <<users, password_credentials, refresh_tokens, issued, challenges>>
          /\ \A p \in Procs, b \in Bearers, id \in PasskeyIds :
                DeletePasskey(p, b, id) =>
                    LET cu == CurrentUser(b)
                        row == {k \in passkey_credentials : k.id = id} IN
                    IF cu.status /= 200
                    THEN resp'.status = 401 /\ passkey_credentials' = passkey_credentials
                    ELSE IF row = {} \/ \E k \in row : k.user_id /= cu.uid
                    THEN resp'.status = 404 /\ passkey_credentials' = passkey_credentials
                    ELSE /\ resp'.status = 204
                         /\ Cardinality(row) = 1
                         /\ passkey_credentials' = passkey_credentials \ row]_vars

\* a user asked to delete a passkey of another user and got 404, with the row still there
C17_Witness ==
    /\ resp.op = "delete_passkey" /\ resp.standing = "not_owner" /\ resp.status = 404
    /\ Cardinality(passkey_credentials) = minted.passkey

\* an owner deleted a passkey and another passkey is still there
C17_WitnessOwner ==
    /\ resp.op = "delete_passkey" /\ resp.standing = "owner" /\ resp.status = 204
    /\ passkey_credentials /= {}

\* C18: revoke_all_user_tokens(u) returns the number of u's rows that were not revoked,
\* leaves every row of u revoked, so that the row of every refresh token issued to u so
\* far is revoked, and changes no row of another user and nothing else; and a refresh
\* request whose token has a revoked row never gets past its arrival
C18_RevokeAllRevokesUsersRows ==
    /\ [][(Answers /\ resp'.op = "revoke_all") =>
             /\ UNCHANGED <<users, password_credentials, issued>>
             /\ \A p \in Procs, uid \in 1..MaxUsers :
                   RevokeAllUserTokens(p, uid) =>
                       /\ resp'.ret = Cardinality({r \in refresh_tokens :
                                                      r.user_id = uid /\ ~r.revoked})
                       /\ \A r \in refresh_tokens' : r.user_id = uid => r.revoked
                       /\ \A i \in issued : i.sub = uid =>
                             \E r \in refresh_tokens' :
                                r.token_hash = Sha256(RefreshToken(i.sub, i.jti)) /\ r.revoked
                       /\ {r \in refresh_tokens' : r.user_id /= uid}
                             = {r \in refresh_tokens : r.user_id /= uid}
                       /\ {r.id : r \in refresh_tokens'} = {r.id : r \in refresh_tokens}]_vars
    /\ [][\A p \in Procs :
             (req[p].pc = "done" /\ req'[p].pc /= "done" /\ req'[p].op = "refresh")
                => \A r \in RowOf(req'[p].token) : ~r.revoked]_vars

\* revoke_all_user_tokens revoked two rows of a user at once and left a row of the other
\* user alone
C18_Witness ==
    /\ resp.op = "revoke_all" /\ resp.ret = 2
    /\ \E r \in refresh_tokens : ~r.revoked

\* ------------------------------------------------------------- C19

\* C19: in every reachable state each user has at most one password credential row,
\* whatever create_user, set_password and verify_password (with its rehash) have done,
\* concurrent set_password calls for one user included
C19_AtMostOnePasswordCredential ==
    \A uid \in 1..MaxUsers : Cardinality(GetPasswordCredential(uid)) <= 1

\* two concurrent set_password calls for a user without a credential both took the INSERT
\* branch, and the second INSERT was refused
C19_Witness ==
    /\ resp.op = "set_password" /\ resp.status = 500 /\ resp.detail = "ConstraintException"
    /\ \E uid \in 1..MaxUsers : Cardinality(GetPasswordCredential(uid)) = 1 /\ registered[uid].password = ""

\* ------------------------------------------------------------- C20

\* the passwords verify_password is called with
VerifiedPasswords == SetPasswords \cup LoginPasswords

PasskeysBehind(e) ==
    {k.credential_id : k \in {x \in passkey_credentials :
                                \E u \in GetUserByEmail(e) : u.id = x.user_id}}

\* C21: the allow-list that generate_passkey_authentication_options reads is the set of
\* credential ids of the passkeys of the user the email resolves to, and is empty
\* without an email, without such a user and without passkeys of that user; the options
\* answer carries this list, stores a challenge that was never handed out before under a
\* key that was never used before, leaves the other challenges alone and returns the key
C21_AllowListAndFreshChallenge ==
    [][\A p \in Procs :
          /\ (req[p].pc = "done" /\ req'[p].op = "auth_options")
                => \A e \in OptionEmails :
                      AuthOptions(p, e)
                        => /\ e /= "" => req'[p].list = PasskeysBehind(e)
                           /\ (e = "" \/ GetUserByEmail(e) = {} \/ PasskeysBehind(e) = {})
                                => req'[p].list = {}
          /\ (req[p].op = "auth_options" /\ req[p].pc = "store_challenge" /\ req'[p] /= req[p])
                => /\ req'[p] = Blank
                   /\ resp'.op = "auth_options" /\ resp'.status = 200
                   /\ resp'.list = req[p].list
                   /\ LET key == TokenKey(resp'.ret) IN
                        /\ key \notin DOMAIN challenges
                        /\ key \notin ChallengeKeys
                        /\ \A c \in DOMAIN consumed : c.key /= key
                        /\ DOMAIN challenges' = DOMAIN challenges \cup {key}
                        /\ challenges'[key] \notin Minted
                        /\ \A k \in DOMAIN challenges : challenges'[k] = challenges[k]
       ]_vars

\* options for a@x were answered with the allow-list of a@x's passkey while another
\* authentication challenge was pending
C21_Witness ==
    /\ resp.op = "auth_options" /\ resp.status = 200 /\ resp.list = {"k1"}
    /\ TokenKey(resp.ret) \in DOMAIN challenges
    /\ \E k \in DOMAIN challenges : k.kind = "tok" /\ k /= TokenKey(resp.ret)

\* options without an email were answered without an allow-list
C21_WitnessNoEmail ==
    /\ resp.op = "auth_options" /\ resp.status = 200 /\ resp.list = {}
    /\ passkey_credentials /= {}

\* ------------------------------------------------------------- C22

\* the challenges that this step takes out of the cache or hands to a verifier
TakenChallenges ==
    {challenges[k] : k \in DOMAIN challenges \ DOMAIN challenges'}
        \cup {c \in DOMAIN consumed' : c \notin DOMAIN consumed \/ consumed'[c] > consumed[c]}

\* this step is the arrival of a request op
Arrives(op) ==
    \E p \in Procs : /\ req[p].pc = "done"
                     /\ \/ req'[p].op = op
                        \/ req' = req /\ resp' /= resp /\ resp'.op = op

\* C22: a challenge is taken only by the verify step of the ceremony that stored it: one
\* stored by registration options (under the user id) only by
\* verify_passkey_registration, one stored by authentication options (under a generated
\* key) only by verify_passkey_authentication
C22_ChallengeTakenByItsOwnCeremony ==
    [][\A c \in TakenChallenges :
          /\ c.key.kind = "uid" => Arrives("reg_verify") /\ ~Arrives("auth_verify")
          /\ c.key.kind = "tok" => Arrives("auth_verify") /\ ~Arrives("reg_verify")]_vars

\* ------------------------------------------------------------- C23

\* C23: in every reachable state, when the row of a pair issued by refresh_tokens(T)
\* exists, the row of T is revoked, and the row of the token of a rotation that is past
\* its UPDATE (about to read the user or to create the new pair) is revoked
C23_OldRowRevokedBeforeNewRow ==
    /\ \A i \in issued :
          (i.from /= 0 /\ \E r \in refresh_tokens : r.id = i.jti)
              => \E t \in refresh_tokens : t.id = i.from /\ t.revoked
    /\ \A p \in Procs :
          (req[p].op = "refresh" /\ req[p].pc \in {"get_user", "create_tokens"})
              => \E t \in GetRefreshRow(req[p].token) : t.revoked

\* a rotation has been answered with a new pair, whose row exists and is live
C23_Witness ==
    /\ resp.op = "refresh" /\ resp.status = 200
    /\ \E i \in issued : /\ i.jti = resp.ret /\ i.from /= 0
                         /\ \E r \in refresh_tokens : r.id = i.jti /\ ~r.revoked
                         /\ \E t \in refresh_tokens : t.id = i.from /\ t.revoked

\* ------------------------------------------------------------- C24

\* the answers of a verify attempt that failed after it had obtained its challenge
FailuresAfterPop ==
    {"Credential not found", "InvalidAuthenticationResponse", "InvalidRegistrationResponse",
     "ConstraintException", "User not found", "Account is disabled"}

\* C24: a challenge that a verify attempt has obtained is in the cache no more, whether
\* the attempt succeeds or fails: the attempt removes it in the step in which it finds
\* it, an attempt that fails later has found it and puts nothing back, an attempt whose
\* key has lost its challenge is answered "No ... challenge found" and changes nothing,
\* and a key gets a challenge again only from an options request
C24_FailedVerifyIsTerminal ==
    /\ [](\A k \in DOMAIN challenges : challenges[k] \notin DOMAIN consumed)
    /\ [][/\ \A p \in Procs :
                (/\ req[p].pc = "done"
                 /\ \/ req'[p].op \in {"reg_verify", "auth_verify"} /\ req'[p].standing = "pending"
                    \/ /\ req' = req /\ resp' /= resp /\ resp'.standing = "pending"
                       /\ resp'.op \in {"reg_verify", "auth_verify"})
                    => \E c \in TakenChallenges :
                          c \in DOMAIN consumed' /\ c.key \notin DOMAIN challenges'
          /\ (/\ Answers /\ resp'.op \in {"reg_verify", "auth_verify"}
              /\ resp'.detail \in FailuresAfterPop)
                    => /\ resp'.standing = "pending"
                       /\ \A k \in DOMAIN challenges' :
                             k \in DOMAIN challenges /\ challenges'[k] = challenges[k]
          /\ (/\ resp' /= resp /\ resp'.op \in {"reg_verify", "auth_verify"}
              /\ resp'.standing = "spent")
                    => /\ resp'.detail = IF resp'.op = "reg_verify"
                                         THEN "No registration challenge found"
                                         ELSE "No authentication challenge found"
                       /\ resp'.status = IF resp'.op = "reg_verify" THEN 400 ELSE 401
                       /\ UNCHANGED <<ceremony, store, issued>>
          /\ (\E k \in DOMAIN challenges' :
                    k \notin DOMAIN challenges \/ challenges'[k] /= challenges[k])
                    => /\ Answers /\ resp'.op \in {"reg_options", "auth_options"}
                       /\ resp'.status = 200
         ]_vars

\* a registration verify failed on its response, and the retry with the same key found
\* no challenge
C24_Witness ==
    /\ resp.op = "reg_verify" /\ resp.standing = "spent"
    /\ resp.detail = "No registration challenge found"
    /\ minted.passkey = 1 /\ passkey_credentials /= {}
    /\ \E c \in DOMAIN consumed : c.key.kind = "uid" /\ c.gen > 1
    /\ \A p \in Procs : req[p].pc = "done"

\* ------------------------------------------------------------- C25

\* C25: while no passkey row holds a credential id (its row was deleted and the
\* credential has not been registered again), the SELECT of a
\* verify_passkey_authentication that presents it ends the attempt with 401
\* "Credential not found", nothing is changed and no token pair is issued: a request
\* that goes on to the UPDATE and to create_tokens has found the row of its credential
C25_DeletedPasskeyCannotLogIn ==
    [][\A p \in Procs :
          /\ (/\ req[p].op = "auth_verify" /\ req[p].pc = "select_passkey"
              /\ req'[p] /= req[p]
              /\ \A k \in passkey_credentials : k.credential_id /= req[p].cred)
                => /\ req'[p] = Blank
                   /\ resp'.op = "auth_verify" /\ resp'.status = 401
                   /\ resp'.detail = "Credential not found"
                   /\ UNCHANGED <<store, issued, passkey_credentials>>
          /\ (/\ req[p].op = "auth_verify" /\ req[p].pc = "select_passkey"
              /\ req'[p].pc = "update_sign_count")
                => \E k \in passkey_credentials :
                      /\ k.credential_id = req[p].cred
                      /\ k.id = req'[p].row /\ k.user_id = req'[p].uid
       ]_vars

\* the owner has deleted passkey "k1", no passkey has been registered since, and an
\* assertion of "k1" presented with a pending challenge was answered "Credential not
\* found"
C25_Witness ==
    /\ resp.op = "auth_verify" /\ resp.status = 401 /\ resp.detail = "Credential not found"
    /\ resp.standing = "pending"
    /\ passkey_credentials = {} /\ minted.passkey = 1
    /\ Cardinality(issued) = 1

\* ------------------------------------------------------------- C26

\* C26: the pair that a successful login_passkey_verify issues has as subject the
\* user_id of the passkey row matched by the presented credential id: the SELECT takes
\* the user from that row, whatever allow-list the options call had read for its email,
\* the UPDATE and the read of the user keep it, and create_tokens signs the pair and
\* inserts the refresh-token row for it
C26_PasskeyLoginIsForTheOwner ==
    /\ [](\A p \in Procs :
            (req[p].op = "auth_verify" /\ req[p].pc = "update_sign_count")
                => \A k \in passkey_credentials : k.id = req[p].row => k.user_id = req[p].uid)
    /\ [][\A p \in Procs :
            /\ (/\ req[p].op = "auth_verify" /\ req[p].pc = "select_passkey"
                /\ req'[p].pc /= "done" /\ req'[p] /= req[p])
                  => \E k \in passkey_credentials :
                        /\ k.credential_id = req[p].cred
                        /\ req'[p].uid = k.user_id /\ req'[p].row = k.id
                        /\ req'[p].pc = "update_sign_count"
            /\ (/\ req[p].op = "auth_verify" /\ req[p].pc = "update_sign_count"
                /\ req'[p] /= req[p])
                  => \/ req'[p].pc = "create_tokens" /\ req'[p].uid = req[p].uid
                     \/ req'[p] = Blank /\ resp'.status = 401 /\ issued' = issued
            /\ (/\ req[p].op = "auth_verify" /\ req[p].pc = "create_tokens"
                /\ req'[p] /= req[p])
                  => /\ req'[p] = Blank /\ resp'.op = "auth_verify" /\ resp'.status = 200
                     /\ \E i \in issued' :
                          /\ issued' = issued \cup {i} /\ i \notin issued
                          /\ i.sub = req[p].uid /\ i.jti = resp'.ret
                          /\ \E r \in refresh_tokens' \ refresh_tokens :
                                r.user_id = req[p].uid
                                    /\ r.token_hash = Sha256(RefreshToken(req[p].uid, i.jti))
         ]_vars

\* the second user has enrolled passkey "k2" and has logged in with it: the pair is for
\* that user, while the first user's passkey exists as well
C26_Witness ==
    /\ resp.op = "auth_verify" /\ resp.status = 200
    /\ \E i \in issued : i.jti = resp.ret /\ i.sub = 2
    /\ \E k \in passkey_credentials : k.credential_id = "k2" /\ k.user_id = 2
    /\ \E k \in passkey_credentials : k.credential_id = "k1" /\ k.user_id = 1
    /\ minted.auth > 0

\* ------------------------------------------------------------- C27

\* the registration challenge issued last to user uid
LatestRegistrationChallenge(uid) == Challenge(UserKey(uid), minted.reg[uid])

\* C27: the cache holds at most one registration challenge per user, the one issued to
\* that user last (a later options call overwrites the earlier challenge); a
\* registration verify passes the verifier only with a response to that challenge; and a
\* registration verify that arrives after another attempt has taken the challenge is
\* answered 400 "No registration challenge found"
C27_OneRegistrationChallengePerUser ==
    /\ [](\A k \in DOMAIN challenges :
            k.kind = "uid" => challenges[k] = LatestRegistrationChallenge(k.n))
    /\ [][\A p \in Procs :
            /\ (req[p].op = "reg_options" /\ req[p].pc = "store_challenge" /\ req'[p] = Blank)
                  => /\ challenges'[UserKey(req[p].uid)] \notin Minted
                     /\ \A c \in Minted : c.key = UserKey(req[p].uid)
                            => \A k \in DOMAIN challenges' : challenges'[k] /= c
            /\ (req[p].pc = "done" /\ req'[p].op = "reg_verify" /\ req'[p].pc = "insert_passkey")
                  => /\ TakenChallenges = {LatestRegistrationChallenge(req'[p].uid)}
                     /\ \A b \in Bearers, c \in RegistrationResponses :
                            RegVerify(p, b, c)
                                => c.signed = LatestRegistrationChallenge(req'[p].uid)
            /\ (/\ req[p].pc = "done" /\ req' = req /\ resp' /= resp
                /\ resp'.op = "reg_verify" /\ resp'.standing = "spent")
                  => /\ resp'.status = 400
                     /\ resp'.detail = "No registration challenge found"
                     /\ UNCHANGED <<ceremony, store, issued>>
         ]_vars

\* user 1 has requested registration options twice; the first of these challenges was
\* overwritten and never obtained, a verify with a response to the second has stored a
\* passkey, and the verify of the other ceremony found no challenge
C27_Witness ==
    /\ resp.op = "reg_verify" /\ resp.standing = "spent"
    /\ resp.detail = "No registration challenge found"
    /\ minted.reg[1] = 3 /\ minted.passkey = 2
    /\ Challenge(UserKey(1), 3) \in DOMAIN consumed
    /\ Challenge(UserKey(1), 2) \notin DOMAIN consumed
    /\ \E k \in passkey_credentials : k.id = 2 /\ k.user_id = 1

\* ------------------------------------------------------------- C28

\* C28: a refresh_tokens call that is rejected after its SELECT found a live row (its
\* user is missing or inactive) leaves the presented token's row revoked and issues no
\* pair; no step sets a revoked row back; and a later call with that token is rejected,
\* nothing changed, also when the account is enabled by then
C28_RejectedRefreshBurnsTheToken ==
    [][/\ \A p \in Procs :
            (/\ req[p].op = "refresh" /\ req[p].pc \in {"revoke", "get_user"}
             /\ req'[p] = Blank)
                => /\ resp'.op = "refresh" /\ resp'.status = 401
                   /\ \A u \in GetUserById(req[p].token.sub) : ~u.is_active
                   /\ \E r \in refresh_tokens' : r.id = req[p].row /\ r.revoked
                   /\ GetRefreshRow(req[p].token) = {r \in refresh_tokens' : r.id = req[p].row}
                   /\ issued' = issued
                   /\ {r.id : r \in refresh_tokens'} = {r.id : r \in refresh_tokens}
       /\ \A r \in refresh_tokens :
            r.revoked => \E x \in refresh_tokens' : x.id = r.id /\ x.revoked
       /\ (resp' /= resp /\ resp'.op = "refresh" /\ resp'.standing = "burned")
                => /\ resp'.status = 401
                   /\ UNCHANGED <<store, issued>>
      ]_vars

\* a refresh on the disabled account was rejected, the account was enabled again, and a
\* refresh with the same token was rejected: no pair was ever issued from it
C28_Witness ==
    /\ resp.op = "refresh" /\ resp.status = 401 /\ resp.standing = "burned" /\ ~resp.disabled
    /\ \A u \in users : u.is_active
    /\ \A i \in issued : i.from = 0
    /\ \A p \in Procs : req[p].pc = "done"

\* ------------------------------------------------------------- C29

\* the access tokens handed out so far
IssuedAccessTokens == {AccessToken(i.sub, i.jti) : i \in issued}

\* C29: what verify_access_token returns for an access token that was handed out
\* is decided by the token and the clock alone (the payload until the token's expiry,
\* None afterwards), whatever has become of the refresh-token rows; and /me, called with
\* such a token before its expiry while its user exists and is active, answers 200 with
\* that user, also after a logout, a rotation or revoke_all_user_tokens, and 401 once
\* the token has expired
C29_AccessTokenOutlivesRevocation ==
    /\ [](\A tok \in IssuedAccessTokens :
            VerifyAccessToken(tok) = IF tok.jti > expired.access
                                     THEN [sub |-> tok.sub, type |-> "access"]
                                     ELSE None)
    /\ [][\A p \in Procs :
            (req[p].pc = "done" /\ req' = req /\ resp' /= resp /\ resp'.op = "me")
                => \A tok \in IssuedAccessTokens :
                      /\ (/\ Me(p, tok)
                          /\ tok.jti > expired.access
                          /\ \E u \in users : u.id = tok.sub /\ u.is_active)
                             => resp'.status = 200 /\ resp'.ret = tok.sub
                      /\ (Me(p, tok) /\ tok.jti <= expired.access)
                             => resp'.status = 401 /\ resp'.detail = "Invalid or expired token"
         ]_vars

\* /me was answered 200 after every refresh-token row had been revoked, one by a
\* rotation and one by logout or revoke_all_user_tokens
C29_Witness ==
    /\ resp.op = "me" /\ resp.status = 200 /\ resp.ret = 1
    /\ \A r \in refresh_tokens : r.revoked
    /\ \E r \in refresh_tokens : revokedBy[r.id] = "rotation"
    /\ \E r \in refresh_tokens : revokedBy[r.id] = "revoke"
    /\ \A p \in Procs : req[p].pc = "done"

\* ------------------------------------------------------------- C30

\* this step is worker p answering or taking up a call of a bearer-protected route with
\* bearer token tok
BearerRouteStep(p, tok) ==
    \/ Me(p, tok)
    \/ ListPasskeys(p, tok)
    \/ RegOptions(p, tok)
    \/ \E id \in PasskeyIds : DeletePasskey(p, tok, id)
    \/ \E c \in RegistrationResponses : RegVerify(p, tok, c)

\* C30: a call of a bearer-protected route (me, passkey register options and verify,
\* list passkeys, delete passkey) with a valid access token whose user is missing or has
\* is_active false when get_current_user reads it is answered 401 "User not found or
\* inactive" at once and changes no table, no challenge and no pair; a request of such a
\* route that stays in flight was made for a user who was active then
C30_InactiveUserIsRefusedByBearerRoutes ==
    [][\A p \in Procs :
          /\ (req[p].pc = "done" /\ (req'[p] /= req[p] \/ resp' /= resp))
                => \A tok \in IssuedAccessTokens :
                      (/\ VerifyAccessToken(tok) /= None
                       /\ \A u \in GetUserById(tok.sub) : ~u.is_active
                       /\ BearerRouteStep(p, tok))
                          => /\ req' = req
                             /\ resp'.op \in BearerRoutes
                             /\ resp'.status = 401
                             /\ resp'.detail = "User not found or inactive"
                             /\ NothingChanges /\ UNCHANGED <<minted, consumed>>
          /\ (req[p].pc = "done" /\ req'[p].pc /= "done" /\ req'[p].op \in BearerRoutes)
                => \E u \in users : u.id = req'[p].uid /\ u.is_active
       ]_vars

\* the owner of passkey 1 was disabled and then asked to delete it with a valid access
\* token: the request was refused and the passkey is still there
C30_Witness ==
    /\ resp.op = "delete_passkey" /\ resp.status = 401
    /\ resp.detail = "User not found or inactive" /\ resp.standing = "access"
    /\ \E u \in users : u.id = 1 /\ ~u.is_active
    /\ \E k \in passkey_credentials : k.id = 1 /\ k.user_id = 1

====
